---- MODULE Spec2Model ----
(***************************************************************************)
(* A model of libgmldc: the control-flow-graph container (src/src/cfg.rs)  *)
(* and the decompilation pipeline of src/src/lib.rs (offset resolution,    *)
(* instruction-level CFG construction, block partitioning, the resolve     *)
(* loop and the straight-line resolver).                                   *)
(*                                                                         *)
(* Conventions.  A NodeRef is its usize.  Rust indices are 0-based: the    *)
(* instruction with Rust index i is code[i + 1] here.  A Result is a       *)
(* record with a tag ("Ok", "Err"), a value and an error kind.  A HashSet  *)
(* is a set, a HashMap a function on its key set, an Option a set with at  *)
(* most one element.  A panic (unwrap on None, indexing a missing key) is  *)
(* an outcome of its own, tagged "panic", distinct from a returned Err.    *)
(***************************************************************************)
EXTENDS Integers, Sequences, FiniteSets, TLC

VARIABLES
    g,          \* cfg.rs: a ControlFlowGraph driven directly by its callers
    gstatus,    \* "ok", or "panic" once a container call has aborted
    glast,      \* history: the latest container call and the graph before it
    gfirst,     \* history: the first node ever inserted, {} before any insertion
    gops,       \* number of container calls made so far
    call,       \* the offset-resolver call under test and its result
    code,       \* GMCode.instructions
    exec_off,   \* GMCode.execution_offset()
    pc,         \* position in decompile_one
    result,     \* what decompile_one returned (or how it aborted)
    in_cfg,     \* create_instr_cfg_from_code: cfg
    i_next,     \* create_instr_cfg_from_code: the work queue
    seen_once,  \* create_instr_cfg_from_code: seen_once
    reached,    \* history: how often each index has been dequeued in range
    last,       \* history: what the latest iteration of the builder's loop did
    part,       \* instr_cfg_to_block_cfg: leaders, trailers, blocks, loop positions
    out_cfg,    \* instr_cfg_to_block_cfg: out_cfg, then decompile_one: cfg
    ri,         \* decompile_one: the loop variable i of line 218
    outs,       \* decompile_one: the blocks appended to out so far
    sl,         \* try_resolve: i, stack and out of the simulation
    resolution, \* what the latest try_resolve returned, and for which entry
    declined    \* history: the entries for which try_resolve returned Ok(None)

graphVars == <<g, gstatus, gops, glast, gfirst>>
inputVars == <<code, exec_off>>
buildVars == <<in_cfg, i_next, seen_once, reached, last>>
partVars == <<part, out_cfg>>
resolveVars == <<ri, outs, sl, resolution, declined>>

vars == <<g, gstatus, gops, glast, gfirst, call, code, exec_off, pc, result,
          in_cfg, i_next, seen_once, reached, last, part, out_cfg,
          ri, outs, sl, resolution, declined>>

(***************************************************************************)
(* Bounds of the model.                                                    *)
(***************************************************************************)
MaxNode == 2        \* container: NodeRefs 0..MaxNode
MaxOps == 4         \* container: calls per behaviour
MaxLen == 3         \* offset resolver: instructions per stream
MaxInstr == 3       \* CFG builder: instructions per stream
MaxBlock == 3       \* straight-line resolver: instructions per block
MaxPostfix == 5     \* straight-line resolver: instructions per postfix block
MaxCode == 3        \* decompile_one: instructions per stream

\* Result<T>: Ok(v), Err(e); Panic(e) is an uncontrolled abort, not a value.
\* ErrIn(e, b) is an error whose message names block b.
Ok(v) == [tag |-> "Ok", val |-> v, err |-> "", block |-> -1]
Err(e) == [tag |-> "Err", val |-> 0, err |-> e, block |-> -1]
ErrIn(e, b) == [tag |-> "Err", val |-> 0, err |-> e, block |-> b]
Panic(e) == [tag |-> "panic", val |-> 0, err |-> e, block |-> -1]
None == [tag |-> "none", val |-> 0, err |-> "", block |-> -1]

(***************************************************************************)
(* cfg.rs: ControlFlowGraph<Meta>.                                         *)
(***************************************************************************)
new_rootless == [nodes |-> <<>>, root |-> {}]

has(cfg, data) == data \in DOMAIN cfg.nodes
len(cfg) == Cardinality(DOMAIN cfg.nodes)
children_of(cfg, node) == cfg.nodes[node].children
parents_of(cfg, node) == cfg.nodes[node].parents
meta_of(cfg, node) == cfg.nodes[node].meta

\* insert_parentless that replaces the entry of a node already present.
insert_parentless_fresh(cfg, this, meta) ==
    IF DOMAIN cfg.nodes = {}
    THEN [nodes |-> this :> [children |-> {}, parents |-> {}, meta |-> meta],
          root |-> {this}]
    ELSE [cfg EXCEPT !.nodes =
              [k \in DOMAIN @ \cup {this} |->
                  IF k = this
                  THEN [children |-> {}, parents |-> {}, meta |-> meta]
                  ELSE @[k]]]

\* insert_parentless never aborts.
insert_parentless(cfg, this, meta) ==
    IF DOMAIN cfg.nodes = {}
    THEN [nodes |-> this :> [children |-> {}, parents |-> {}, meta |-> meta],
          root |-> {this}]
    ELSE IF this \in DOMAIN cfg.nodes
    THEN [cfg EXCEPT !.nodes[this].meta = meta]
    ELSE [cfg EXCEPT !.nodes =
              (this :> [children |-> {}, parents |-> {}, meta |-> meta]) @@ @]

\* insert: [g |-> the graph afterwards, panic |-> whether line 132 unwrapped None].
\* The entry of `this` is written (lines 117-130) before the parent is looked up.
insert(cfg, parent, this, meta) ==
    IF DOMAIN cfg.nodes = {}
    THEN [g |-> [nodes |-> this :> [children |-> {}, parents |-> {}, meta |-> meta],
                 root |-> {this}],
          panic |-> FALSE]
    ELSE LET n1 == IF this \in DOMAIN cfg.nodes
                   THEN [cfg.nodes EXCEPT ![this].parents = @ \cup {parent},
                                          ![this].meta = meta]
                   ELSE (this :> [children |-> {}, parents |-> {parent},
                                  meta |-> meta]) @@ cfg.nodes
         IN  IF parent \in DOMAIN n1
             THEN [g |-> [cfg EXCEPT !.nodes =
                             [n1 EXCEPT ![parent].children = @ \cup {this}]],
                   panic |-> FALSE]
             ELSE [g |-> [cfg EXCEPT !.nodes = n1], panic |-> TRUE]

\* Detach that forgets the children sets of the removed node's parents.
Detach_forgetParents(nodes, this, cs, ps) ==
    [m \in DOMAIN nodes \ {this} |->
        [children |-> nodes[m].children,
         parents  |-> nodes[m].parents \ (IF m \in cs THEN {this} ELSE {}),
         meta     |-> nodes[m].meta]]

\* The nodes map with `this` taken out and `this` dropped from the parents sets
\* of the nodes in cs and from the children sets of the nodes in ps.
Detach(nodes, this, cs, ps) ==
    [m \in DOMAIN nodes \ {this} |->
        [children |-> nodes[m].children \ (IF m \in ps THEN {this} ELSE {}),
         parents  |-> nodes[m].parents \ (IF m \in cs THEN {this} ELSE {}),
         meta     |-> nodes[m].meta]]

\* remove: the set of outcomes [g, panic].  It aborts when `this` is absent
\* (line 136), or when a child (line 138) or a parent (line 141) is no longer in
\* the map, which is the case of `this` itself once line 136 has taken it out.
\* The sets are walked in arbitrary order, so an abort leaves any subset of the
\* neighbours before it already updated.
remove(cfg, this) ==
    IF this \notin DOMAIN cfg.nodes
    THEN {[g |-> cfg, panic |-> TRUE]}
    ELSE LET node == cfg.nodes[this]
             rest == DOMAIN cfg.nodes \ {this}
             okc  == node.children \cap rest
             okp  == node.parents \cap rest
         IN  IF node.children \subseteq rest /\ node.parents \subseteq rest
             THEN {[g |-> [cfg EXCEPT !.nodes = Detach(cfg.nodes, this, okc, okp)],
                    panic |-> FALSE]}
             ELSE IF ~(node.children \subseteq rest)
             THEN {[g |-> [cfg EXCEPT !.nodes = Detach(cfg.nodes, this, cs, {})],
                    panic |-> TRUE] : cs \in SUBSET okc}
             ELSE {[g |-> [cfg EXCEPT !.nodes = Detach(cfg.nodes, this, okc, ps)],
                    panic |-> TRUE] : ps \in SUBSET okp}

(***************************************************************************)
(* The container driven by an arbitrary caller: any sequence of insert,    *)
(* insert_parentless and remove calls on a graph that starts empty.  A     *)
(* call that aborts ends the behaviour (gstatus = "panic").                *)
(***************************************************************************)
NodeRefs == 0..MaxNode
Metas == {"m1", "m2"}

NoCall == [op |-> "none", parent |-> -1, this |-> -1, meta |-> "",
           before |-> new_rootless]
CallOf(op, parent, this, meta) ==
    [op |-> op, parent |-> parent, this |-> this, meta |-> meta, before |-> g]

GInsert ==
    /\ gstatus = "ok" /\ gops < MaxOps
    /\ \E parent \in NodeRefs, this \in NodeRefs, meta \in Metas :
          LET r == insert(g, parent, this, meta)
          IN  /\ g' = r.g
              /\ gstatus' = IF r.panic THEN "panic" ELSE "ok"
              /\ glast' = CallOf("insert", parent, this, meta)
              /\ gfirst' = IF gfirst = {} THEN {this} ELSE gfirst
    /\ gops' = gops + 1
    /\ UNCHANGED <<call, inputVars, pc, result, buildVars, partVars, resolveVars>>

GInsertParentless ==
    /\ gstatus = "ok" /\ gops < MaxOps
    /\ \E this \in NodeRefs, meta \in Metas :
          /\ g' = insert_parentless(g, this, meta)
          /\ glast' = CallOf("insert_parentless", -1, this, meta)
          /\ gfirst' = IF gfirst = {} THEN {this} ELSE gfirst
    /\ gops' = gops + 1
    /\ UNCHANGED <<gstatus, call, inputVars, pc, result, buildVars, partVars,
                   resolveVars>>

GRemove ==
    /\ gstatus = "ok" /\ gops < MaxOps
    /\ \E this \in NodeRefs :
          \E r \in remove(g, this) :
              /\ g' = r.g
              /\ gstatus' = IF r.panic THEN "panic" ELSE "ok"
              /\ glast' = CallOf("remove", -1, this, "")
    /\ gops' = gops + 1
    /\ UNCHANGED gfirst
    /\ UNCHANGED <<call, inputVars, pc, result, buildVars, partVars, resolveVars>>

(***************************************************************************)
(* Instructions.  Only what the decompiler reads of libgm's Instruction:   *)
(* the variant (op), its encoded byte size (size(), a multiple of 4) and   *)
(* the variant's payload (arg): jump_offset, argument_count or the pushed  *)
(* value.                                                                  *)
(***************************************************************************)
Instr(op, size, arg) == [op |-> op, size |-> size, arg |-> arg]

Streams(alphabet, n) == UNION {[1..k -> alphabet] : k \in 0..n}

(***************************************************************************)
(* lib.rs: the offset resolver.                                            *)
(***************************************************************************)
\* The loop with `offset <= byte_index` for its condition.
RECURSIVE get_index_from_bytes_loop_le(_, _, _, _)
get_index_from_bytes_loop_le(instructions, byte_index, index, offset) ==
    IF offset <= byte_index
    THEN IF index >= Len(instructions)
         THEN Err("out of range")
         ELSE get_index_from_bytes_loop_le(instructions, byte_index, index + 1,
                                           offset + instructions[index + 1].size)
    ELSE IF offset # byte_index
         THEN Err("misaligned")
         ELSE Ok(index)

\* The loop of get_index_from_bytes without the test of lines 37-39.
RECURSIVE get_index_from_bytes_loop_unaligned(_, _, _, _)
get_index_from_bytes_loop_unaligned(instructions, byte_index, index, offset) ==
    IF offset < byte_index
    THEN IF index >= Len(instructions)
         THEN Err("out of range")
         ELSE get_index_from_bytes_loop_unaligned(instructions, byte_index,
                  index + 1, offset + instructions[index + 1].size)
    ELSE Ok(index)

\* The while loop of get_index_from_bytes, from (index, offset).
RECURSIVE get_index_from_bytes_loop(_, _, _, _)
get_index_from_bytes_loop(instructions, byte_index, index, offset) ==
    IF offset < byte_index
    THEN IF index >= Len(instructions)
         THEN Err("out of range")
         ELSE get_index_from_bytes_loop(instructions, byte_index, index + 1,
                                        offset + instructions[index + 1].size)
    ELSE IF offset # byte_index
         THEN Err("misaligned")
         ELSE Ok(index)

get_index_from_bytes(instructions, byte_index) ==
    IF byte_index = 0
    THEN Ok(0)
    ELSE get_index_from_bytes_loop(instructions, byte_index, 0, 0)

RECURSIVE code_byte_length(_)
code_byte_length(instructions) ==
    IF instructions = <<>>
    THEN 0
    ELSE code_byte_length(SubSeq(instructions, 1, Len(instructions) - 1))
         + instructions[Len(instructions)].size

\* get_index_from_byte_offset without the early return of lines 56-58.
get_index_from_byte_offset_nozero(instructions, index, offset) ==
    IF index > Len(instructions)
    THEN Panic("slice index out of range")
    ELSE IF offset < 0
    THEN LET before == SubSeq(instructions, 1, index)
             pos_offset == code_byte_length(before) + offset
         IN  IF pos_offset < 0
             THEN Err("before start")
             ELSE get_index_from_bytes(before, pos_offset)
    ELSE get_index_from_bytes(SubSeq(instructions, index + 1, Len(instructions)),
                              offset)

\* get_index_from_byte_offset without the slice of line 60: the negative offset
\* is taken from the end of the whole stream.
get_index_from_byte_offset_unsliced(instructions, index, offset) ==
    IF offset = 0
    THEN Ok(index)
    ELSE IF index > Len(instructions)
    THEN Panic("slice index out of range")
    ELSE IF offset < 0
    THEN LET pos_offset == code_byte_length(instructions) + offset
         IN  IF pos_offset < 0
             THEN Err("before start")
             ELSE get_index_from_bytes(instructions, pos_offset)
    ELSE get_index_from_bytes(SubSeq(instructions, index + 1, Len(instructions)),
                              offset)

\* Slicing instructions[..index] or instructions[index..] aborts when index is
\* past the end.  The positive branch returns what get_index_from_bytes returns
\* for the sub-slice.
get_index_from_byte_offset(instructions, index, offset) ==
    IF offset = 0
    THEN Ok(index)
    ELSE IF index > Len(instructions)
    THEN Panic("slice index out of range")
    ELSE IF offset < 0
    THEN LET before == SubSeq(instructions, 1, index)
             pos_offset == code_byte_length(before) + offset
         IN  IF pos_offset < 0
             THEN Err("before start")
             ELSE get_index_from_bytes(before, pos_offset)
    ELSE get_index_from_bytes(SubSeq(instructions, index + 1, Len(instructions)),
                              offset)

(***************************************************************************)
(* The offset resolver called on arbitrary streams: only the sizes matter. *)
(***************************************************************************)
Sizes == {4, 8, 12}
SizedStreams == Streams({Instr("Convert", s, 0) : s \in Sizes}, MaxLen)
MaxBytes == 12 * MaxLen + 4

CallGetIndexFromBytes ==
    /\ call.fn = "get_index_from_bytes" /\ ~call.done
    /\ call' = [call EXCEPT !.done = TRUE,
                            !.ret = get_index_from_bytes(code, call.offset)]
    /\ UNCHANGED <<graphVars, inputVars, pc, result, buildVars, partVars,
                   resolveVars>>

CallGetIndexFromByteOffset ==
    /\ call.fn = "get_index_from_byte_offset" /\ ~call.done
    /\ call' = [call EXCEPT !.done = TRUE,
                   !.ret = get_index_from_byte_offset(code, call.index, call.offset)]
    /\ UNCHANGED <<graphVars, inputVars, pc, result, buildVars, partVars,
                   resolveVars>>

(***************************************************************************)
(* lib.rs: create_instr_cfg_from_code.                                     *)
(***************************************************************************)
\* The test of line 79 with `>` for `>=`.
LoopBreaks_late(queue, n) == queue = <<>> \/ Head(queue)[2] > n

\* Line 79: the loop ends when the queue is empty or its front names an index
\* at or past the end of the stream.
LoopBreaks(queue, n) == queue = <<>> \/ Head(queue)[2] >= n

\* The test of line 84 left out: every dequeued candidate is expanded.
SkipCandidate_never(cfg, seen, i) == FALSE

\* Line 84: a candidate that is a node and is in seen_once is dropped.
SkipCandidate(cfg, seen, i) == has(cfg, i) /\ i \in seen

\* Lines 90-118: the successors enqueued for the instruction at index i, in
\* order, or the error of the offset resolution.
Successors(instructions, i) ==
    LET instr == instructions[i + 1]
        jump == get_index_from_byte_offset(instructions, i, instr.arg * 4)
    IN  CASE instr.op = "Branch" ->
                IF jump.tag = "Ok" THEN Ok(<<jump.val>>) ELSE jump
          [] instr.op \in {"BranchIf", "BranchUnless",
                           "PushWithContext", "PopWithContext"} ->
                IF jump.tag = "Ok" THEN Ok(<<jump.val, i + 1>>) ELSE jump
          [] instr.op \in {"Return", "Exit"} -> Ok(<<>>)
          [] OTHER -> Ok(<<i + 1>>)

RECURSIVE Pairs(_, _)
Pairs(i, targets) ==
    IF targets = <<>> THEN <<>> ELSE <<<<i, Head(targets)>>>> \o Pairs(i, Tail(targets))

\* The queue holds at most the seed and two pairs for each of the at most two
\* expansions of an index; a longer queue is a build that does not end.
QueueCap(n) == 4 * n + 1
\* reached counts up to "three times or more".
Sat(n) == IF n >= 3 THEN 3 ELSE n + 1

NoStep == [kind |-> "none", parent |-> 0, cand |-> 0, visit |-> 0,
           pushed |-> <<>>]

\* Lines 71-75.
BuildEntry ==
    /\ pc = "entry"
    /\ LET start_i == get_index_from_bytes(code, exec_off)
       IN  IF start_i.tag = "Ok"
           THEN /\ i_next' = <<<<0, start_i.val>>>>
                /\ pc' = "build"
                /\ UNCHANGED result
           ELSE /\ result' = Err(start_i.err)
                /\ pc' = "done"
                /\ UNCHANGED i_next
    /\ UNCHANGED <<graphVars, call, inputVars, in_cfg, seen_once, reached, last,
                   partVars, resolveVars>>

\* One iteration of the loop of lines 77-121.
BuildStep ==
    /\ pc = "build"
    /\ Len(i_next) <= QueueCap(Len(code))
    /\ IF LoopBreaks(i_next, Len(code))
       THEN /\ pc' = "built"
            /\ i_next' = IF i_next = <<>> THEN <<>> ELSE Tail(i_next)
            /\ last' = IF i_next = <<>>
                       THEN [NoStep EXCEPT !.kind = "break", !.cand = -1]
                       ELSE [NoStep EXCEPT !.kind = "break",
                                           !.parent = Head(i_next)[1],
                                           !.cand = Head(i_next)[2]]
            /\ UNCHANGED <<result, in_cfg, seen_once, reached>>
       ELSE LET parent == Head(i_next)[1]
                i == Head(i_next)[2]
                rest == Tail(i_next)
            IN  IF i >= Len(code)
                THEN \* code.instructions[*i], line 90, past the end
                     /\ pc' = "done"
                     /\ result' = Panic("index out of bounds")
                     /\ i_next' = rest
                     /\ last' = [NoStep EXCEPT !.kind = "abort", !.parent = parent,
                                               !.cand = i]
                     /\ UNCHANGED <<in_cfg, seen_once, reached>>
                ELSE
                /\ reached' = [reached EXCEPT ![i] = Sat(@)]
                /\ IF SkipCandidate(in_cfg, seen_once, i)
                   THEN /\ i_next' = rest
                        /\ last' = [kind |-> "skip", parent |-> parent, cand |-> i,
                                    visit |-> reached'[i], pushed |-> <<>>]
                        /\ UNCHANGED <<pc, result, in_cfg, seen_once>>
                   ELSE LET succ == Successors(code, i)
                            ins == insert(in_cfg, parent, i, "unit")
                        IN  /\ seen_once' = IF has(in_cfg, i)
                                            THEN seen_once \cup {i}
                                            ELSE seen_once
                            /\ IF succ.tag # "Ok"
                               THEN /\ pc' = "done"
                                    /\ result' = Err(succ.err)
                                    /\ i_next' = rest
                                    /\ last' = [kind |-> "error", parent |-> parent,
                                                cand |-> i, visit |-> reached'[i],
                                                pushed |-> <<>>]
                                    /\ UNCHANGED in_cfg
                               ELSE /\ i_next' = rest \o Pairs(i, succ.val)
                                    /\ in_cfg' = ins.g
                                    /\ last' = [kind |-> "expand", parent |-> parent,
                                                cand |-> i, visit |-> reached'[i],
                                                pushed |-> Pairs(i, succ.val)]
                                    /\ IF ins.panic
                                       THEN /\ pc' = "done"
                                            /\ result' = Panic("insert: no parent")
                                       ELSE UNCHANGED <<pc, result>>
    /\ UNCHANGED <<graphVars, call, inputVars, partVars, resolveVars>>


(***************************************************************************)
(* lib.rs: instr_cfg_to_block_cfg.  in_cfg.iter(), the blocks map and the  *)
(* parents set are walked in the arbitrary order of a HashMap or HashSet:  *)
(* each step takes any element not yet visited.                            *)
(***************************************************************************)
IdlePart == [leaders |-> <<>>, trailers |-> <<>>, todo |-> {}, blocks |-> <<>>,
             btodo |-> {}, cur |-> {}, ptodo |-> {}]

\* Lines 143-170: one iteration of the loop over in_cfg.iter().
VisitNode(cfg, instructions, p, node) ==
    LET many == Cardinality(children_of(cfg, node)) # 1
        next == node < len(cfg) - 1
        jump == instructions[node + 1].op = "Branch"
        t1 == IF many THEN Append(p.trailers, node) ELSE p.trailers
        l1 == IF many /\ next THEN Append(p.leaders, node + 1) ELSE p.leaders
        t2 == IF jump THEN Append(t1, node) ELSE t1
        l2 == IF jump /\ next THEN Append(l1, node + 1) ELSE l1
    IN  [p EXCEPT !.trailers = t2, !.leaders = l2, !.todo = @ \ {node}]

\* Lines 173-178: trailers zipped with leaders, numbered, collected into a map
\* keyed by the trailer; a later pair replaces an earlier one with the same key.
Zip(trailers, leaders) ==
    LET n == IF Len(trailers) < Len(leaders) THEN Len(trailers) ELSE Len(leaders)
        lastOf(t) == CHOOSE k \in 1..n :
                        /\ trailers[k] = t
                        /\ \A j \in 1..n : trailers[j] = t => j <= k
    IN  [t \in {trailers[k] : k \in 1..n} |-> <<lastOf(t) - 1, leaders[lastOf(t)]>>]

DefaultMeta == [instr_range |-> <<0, 0>>, resolve_state |-> "Unresolved"]
BlockMeta(start, end) == [instr_range |-> <<start, end>>,
                          resolve_state |-> "Unresolved"]

\* Lines 189-203: the two container calls made for one parent of a block's
\* leader; blocks[&parent] aborts when parent is no trailer.
LinkParent(cfg, blocks, end, parent) ==
    IF parent \notin DOMAIN blocks
    THEN [g |-> cfg, panic |-> TRUE]
    ELSE LET owner == blocks[parent][1]
             i == blocks[end][1]
             start == blocks[end][2]
         IN  insert(insert_parentless(cfg, owner, DefaultMeta),
                    owner, i, BlockMeta(start, end + 1))

\* Lines 137-140.
PartitionEnter ==
    /\ pc = "built"
    /\ part' = [IdlePart EXCEPT !.leaders = <<0>>, !.todo = DOMAIN in_cfg.nodes]
    /\ pc' = "leaders"
    /\ UNCHANGED <<graphVars, call, inputVars, result, buildVars, out_cfg,
                   resolveVars>>

\* Lines 142-171.
PartitionVisit ==
    /\ pc = "leaders"
    /\ \E node \in part.todo :
          IF node >= Len(code)
          THEN /\ pc' = "done" /\ result' = Panic("index out of bounds")
               /\ UNCHANGED part
          ELSE /\ part' = VisitNode(in_cfg, code, part, node)
               /\ UNCHANGED <<pc, result>>
    /\ UNCHANGED <<graphVars, call, inputVars, buildVars, out_cfg, resolveVars>>

\* Lines 173-180.
PartitionZip ==
    /\ pc = "leaders" /\ part.todo = {}
    /\ LET blocks == Zip(part.trailers, part.leaders)
       IN  part' = [part EXCEPT !.blocks = blocks, !.btodo = DOMAIN blocks]
    /\ out_cfg' = new_rootless
    /\ pc' = "link"
    /\ UNCHANGED <<graphVars, call, inputVars, result, buildVars, resolveVars>>

\* Lines 182-187: the next block of the map, and the parents of its leader.
PartitionBlock ==
    /\ pc = "link" /\ part.ptodo = {}
    /\ \E end \in part.btodo :
          LET start == part.blocks[end][2]
          IN  IF ~has(in_cfg, start)
              THEN /\ pc' = "done" /\ result' = Panic("parents_of: no such node")
                   /\ UNCHANGED part
              ELSE /\ part' = [part EXCEPT !.btodo = @ \ {end}, !.cur = {end},
                                           !.ptodo = parents_of(in_cfg, start)]
                   /\ UNCHANGED <<pc, result>>
    /\ UNCHANGED <<graphVars, call, inputVars, buildVars, out_cfg, resolveVars>>

\* Lines 188-204: one parent of the current block's leader.
PartitionLink ==
    /\ pc = "link"
    /\ \E parent \in part.ptodo, end \in part.cur :
          LET r == LinkParent(out_cfg, part.blocks, end, parent)
          IN  /\ out_cfg' = r.g
              /\ part' = [part EXCEPT !.ptodo = @ \ {parent}]
              /\ IF r.panic
                 THEN pc' = "done" /\ result' = Panic("blocks: no such key")
                 ELSE UNCHANGED <<pc, result>>
    /\ UNCHANGED <<graphVars, call, inputVars, buildVars, resolveVars>>

\* Line 207, and decompile_one up to its loop (lines 214-216).
PartitionReturn ==
    /\ pc = "link" /\ part.ptodo = {} /\ part.btodo = {}
    /\ pc' = "resolve"
    /\ ri' = 0 /\ outs' = <<>>
    /\ UNCHANGED <<graphVars, call, inputVars, result, buildVars, partVars, sl,
                   resolution, declined>>

(***************************************************************************)
(* ast.rs: the fragments of the AST the straight-line resolver builds.     *)
(* Symbol-table lookups (function and variable names) belong to libgm and  *)
(* are taken to succeed; a name is its handle.                             *)
(***************************************************************************)
Constant(v) == [expr |-> "Constant", value |-> v]
Ident(name) == [expr |-> "Ident", name |-> name]
Binary(op, lhs, rhs) == [expr |-> "Binary", op |-> op, lhs |-> lhs, rhs |-> rhs]
CallExpr(base, arguments) ==
    [expr |-> "Call", base |-> base, arguments |-> arguments, has_new |-> FALSE]
Return(value) == [stmt |-> "Return", value |-> value]
Assignment(target, value) ==
    [stmt |-> "Assignment", target |-> target, op |-> "Equal", value |-> value]

(***************************************************************************)
(* lib.rs: StraightLineResolver::try_resolve.  An operator instruction's   *)
(* arg is the data type tag of its first operand: 0 Boolean, 1 an integer  *)
(* type, 2 any other.                                                      *)
(***************************************************************************)
BinaryInstrs == {"Add", "And", "Divide", "Modulus", "Or", "Remainder",
                 "ShiftLeft", "ShiftRight", "Subtract", "Xor", "Multiply"}

\* Lines 365-418.
BinaryOpOf(instr) ==
    CASE instr.op = "Add" -> "Add"
      [] instr.op = "And" -> IF instr.arg = 0 THEN "And" ELSE "BitAnd"
      [] instr.op = "Divide" -> IF instr.arg = 1 THEN "IDiv" ELSE "Div"
      [] instr.op \in {"Modulus", "Remainder"} -> "Rem"
      [] instr.op = "Or" -> IF instr.arg = 0 THEN "Or" ELSE "BitOr"
      [] instr.op = "ShiftLeft" -> "BitShiftLeft"
      [] instr.op = "ShiftRight" -> "BitShiftRight"
      [] instr.op = "Subtract" -> "Sub"
      [] instr.op = "Xor" -> IF instr.arg = 0 THEN "Xor" ELSE "BitXor"
      [] instr.op = "Multiply" -> "Mult"

RangeLen(range) == IF range[2] > range[1] THEN range[2] - range[1] ELSE 0
Slice(instructions, range) == SubSeq(instructions, range[1] + 1, range[2])

\* The test of line 285 with `<` for `<=`.
Declines_lt(range) == RangeLen(range) < 1

\* Lines 284-287: the resolver declines a block of at most one instruction.
Declines(range) == RangeLen(range) <= 1

Reverse(seq) == [k \in 1..Len(seq) |-> seq[Len(seq) + 1 - k]]
Top(stack, k) == SubSeq(stack, Len(stack) - k + 1, Len(stack))
Drop(stack, k) == SubSeq(stack, 1, Len(stack) - k)

\* The operands of lines 363-364 exchanged.
BinaryNode_swapped(op, arg1, arg2) == Binary(op, arg2, arg1)

\* Lines 357-364: arg2 is popped first, arg1 second.
BinaryNode(op, arg1, arg2) == Binary(op, arg1, arg2)

\* Lines 300-537: one iteration of the simulation loop on the instruction at
\* s.i of the block's slice: Ok(the next i, stack and out), an Err, or a panic.
Simulate(slice, s, entry) ==
    LET instr == slice[s.i + 1]
        n == Len(s.stack)
    IN  CASE instr.op = "Push" ->
                Ok([s EXCEPT !.stack = Append(@, Constant(instr.arg)), !.i = @ + 1])
          [] instr.op \in BinaryInstrs ->
                IF n < 2
                THEN ErrIn("stack underflow", entry)
                ELSE Ok([s EXCEPT !.stack = Append(Drop(@, 2),
                                       BinaryNode(BinaryOpOf(instr),
                                                  s.stack[n - 1], s.stack[n])),
                                  !.i = @ + 1])
          [] instr.op = "Call" ->
                IF n < instr.arg
                THEN Panic("unwrap on None")
                ELSE Ok([s EXCEPT !.stack = Append(Drop(@, instr.arg),
                                       CallExpr(Ident("function"),
                                                Reverse(Top(s.stack, instr.arg)))),
                                  !.i = @ + 1])
          [] instr.op = "PushReference" ->
                Ok([s EXCEPT !.stack = Append(@, Ident("asset")), !.i = @ + 1])
          [] instr.op = "Exit" ->
                Ok([s EXCEPT !.out = Append(@, Return(<<>>)), !.i = @ + 1])
          [] instr.op = "Return" ->
                IF n < 1
                THEN Panic("unwrap on None")
                ELSE Ok([s EXCEPT !.out = Append(@, Return(<<s.stack[n]>>)),
                                  !.stack = Drop(@, 1), !.i = @ + 1])
          [] instr.op = "Pop" ->
                IF n < 1
                THEN Panic("unwrap on None")
                ELSE Ok([s EXCEPT !.out = Append(@, Assignment(Ident("variable"),
                                                               s.stack[n])),
                                  !.stack = Drop(@, 1), !.i = @ + 1])
          [] instr.op = "Branch" ->
                LET target == get_index_from_byte_offset(slice, s.i, instr.arg)
                IN  IF target.tag = "Ok"
                    THEN Ok([s EXCEPT !.i = target.val + 1])
                    ELSE target
          [] instr.op \in {"BranchIf", "BranchUnless"} ->
                Ok([s EXCEPT !.stack = IF n < 1 THEN @ ELSE Drop(@, 1), !.i = @ + 1])
          [] instr.op = "Convert" -> Ok([s EXCEPT !.i = @ + 1])
          [] OTHER -> Panic("not yet implemented")

\* The operands the instruction pops, and whether the stack holds fewer.
Pops(instr) ==
    CASE instr.op \in BinaryInstrs -> 2
      [] instr.op = "Call" -> instr.arg
      [] instr.op \in {"Return", "Pop", "BranchIf", "BranchUnless"} -> 1
      [] OTHER -> 0
Underflows(instr, stack) == Len(stack) < Pops(instr)

IdleSim == [i |-> 0, stack |-> <<>>, out |-> <<>>]
NoResolution == [entry |-> -1, ret |-> None, underflow |-> FALSE]
Resolution(cfg, entry, out) ==
    [nodes |-> {entry}, merged_into |-> out,
     merged_children |-> children_of(cfg, entry),
     merged_parents |-> parents_of(cfg, entry)]

\* decompile_one, lines 218-230: the head of the loop.  Past the last index the
\* function returns Ok(out); otherwise try_resolve is entered (lines 284-294).
ResolveNext ==
    /\ pc = "resolve"
    /\ IF ri >= len(out_cfg)
       THEN /\ pc' = "done" /\ result' = Ok(outs)
            /\ UNCHANGED <<ri, outs, sl, resolution, declined>>
       ELSE IF ~has(out_cfg, ri)
       THEN /\ pc' = "done" /\ result' = Panic("meta_of: no such node")
            /\ resolution' = [NoResolution EXCEPT !.entry = ri,
                                                  !.ret = Panic("meta_of")]
            /\ UNCHANGED <<ri, outs, sl, declined>>
       ELSE LET range == meta_of(out_cfg, ri).instr_range
            IN  IF Declines(range)
                THEN /\ resolution' = [NoResolution EXCEPT !.entry = ri,
                                                           !.ret = Ok(<<>>)]
                     /\ ri' = ri + 1
                     /\ declined' = declined \cup {ri}
                     /\ UNCHANGED <<pc, result, outs, sl>>
                ELSE IF range[2] > Len(code)
                THEN /\ pc' = "done" /\ result' = Panic("slice index out of range")
                     /\ resolution' = [NoResolution EXCEPT !.entry = ri,
                                                           !.ret = Panic("slice")]
                     /\ UNCHANGED <<ri, outs, sl, declined>>
                ELSE /\ pc' = "simulate"
                     /\ sl' = IdleSim
                     /\ resolution' = [NoResolution EXCEPT !.entry = ri]
                     /\ UNCHANGED <<result, ri, outs, declined>>
    /\ UNCHANGED <<graphVars, call, inputVars, buildVars, partVars>>

\* try_resolve, lines 296-545: one iteration of the simulation loop, or its end
\* and the return into decompile_one's loop (lines 219-227).  A simulation
\* whose stack and output outgrow the slice is one that executes some
\* instruction again and again.
ResolveStep ==
    /\ pc = "simulate"
    /\ UNCHANGED declined
    /\ LET slice == Slice(code, meta_of(out_cfg, ri).instr_range)
       IN  /\ Len(sl.stack) + Len(sl.out) <= Len(slice)
           /\ IF sl.i >= Len(slice)
              THEN /\ resolution' = [resolution EXCEPT
                                        !.ret = Ok(<<Resolution(out_cfg, ri, sl.out)>>)]
                   /\ outs' = Append(outs, sl.out)
                   /\ ri' = ri + 1
                   /\ pc' = "resolve"
                   /\ UNCHANGED <<result, sl>>
              ELSE LET r == Simulate(slice, sl, ri)
                       under == resolution.underflow
                                \/ Underflows(slice[sl.i + 1], sl.stack)
                   IN  IF r.tag = "Ok"
                       THEN /\ sl' = r.val
                            /\ resolution' = [resolution EXCEPT !.underflow = under]
                            /\ UNCHANGED <<pc, result, ri, outs>>
                       ELSE /\ resolution' = [resolution EXCEPT !.ret = r,
                                                                !.underflow = under]
                            /\ result' = r
                            /\ pc' = "done"
                            /\ UNCHANGED <<ri, outs, sl>>
    /\ UNCHANGED <<graphVars, call, inputVars, buildVars, partVars>>

(***************************************************************************)
(* Specifications.                                                         *)
(***************************************************************************)
IdleCall == [fn |-> "none", index |-> 0, offset |-> 0, done |-> FALSE, ret |-> None]

GraphIdle == /\ g = new_rootless /\ gstatus = "ok" /\ gops = 0
             /\ glast = NoCall /\ gfirst = {}
BuildIdle == /\ in_cfg = new_rootless /\ i_next = <<>> /\ seen_once = {}
             /\ reached = [i \in 0..(Len(code) - 1) |-> 0] /\ last = NoStep
PartIdle == part = IdlePart /\ out_cfg = new_rootless
ResolveIdle == /\ ri = 0 /\ outs = <<>> /\ sl = IdleSim
               /\ resolution = NoResolution /\ declined = {}

\* The container alone.
InitGraph ==
    /\ GraphIdle /\ call = IdleCall /\ code = <<>> /\ exec_off = 0
    /\ pc = "idle" /\ result = None
    /\ BuildIdle /\ PartIdle /\ ResolveIdle

SpecGraph == InitGraph /\ [][GInsert \/ GInsertParentless \/ GRemove]_vars

\* The offset resolver alone.
InitOffset ==
    /\ GraphIdle
    /\ code \in SizedStreams
    /\ \/ \E b \in 0..MaxBytes :
              call = [fn |-> "get_index_from_bytes", index |-> 0, offset |-> b,
                      done |-> FALSE, ret |-> None]
       \/ \E i \in 0..Len(code), o \in (-MaxBytes)..MaxBytes :
              call = [fn |-> "get_index_from_byte_offset", index |-> i,
                      offset |-> o, done |-> FALSE, ret |-> None]
    /\ exec_off = 0 /\ pc = "idle" /\ result = None
    /\ BuildIdle /\ PartIdle /\ ResolveIdle

SpecOffset ==
    InitOffset /\ [][CallGetIndexFromBytes \/ CallGetIndexFromByteOffset]_vars

\* create_instr_cfg_from_code alone.  Jump offsets count 4-byte words.
JumpOffsets == {-2, -1, 0, 1, 2}
BuildAlphabet ==
    {Instr("Exit", 4, 0), Instr("Push", 8, 0)}
    \cup {Instr("Branch", 4, o) : o \in JumpOffsets}
    \cup {Instr("BranchIf", 4, o) : o \in JumpOffsets}
EntryOffsets == {0, 4, 8}

InitBuild ==
    /\ GraphIdle /\ call = IdleCall
    /\ code \in Streams(BuildAlphabet, MaxInstr)
    /\ exec_off \in EntryOffsets
    /\ pc = "entry" /\ result = None
    /\ BuildIdle /\ PartIdle /\ ResolveIdle

NextBuild == BuildEntry \/ BuildStep

SpecBuild == InitBuild /\ [][NextBuild]_vars

\* The builder is the only thread and never blocks: it keeps taking steps.
SpecBuildFair == SpecBuild /\ WF_vars(NextBuild)

\* create_instr_cfg_from_code followed by instr_cfg_to_block_cfg, as lines
\* 212-214 call them: the partitioner on every CFG the builder returns.
NextPartition ==
    \/ BuildEntry \/ BuildStep
    \/ PartitionEnter \/ PartitionVisit \/ PartitionZip
    \/ PartitionBlock \/ PartitionLink \/ PartitionReturn

SpecPartition == InitBuild /\ [][NextPartition]_vars

\* try_resolve on one block, called as decompile_one calls it: the block CFG is
\* the one lines 189-203 build for a single block that is its own parent.
OneBlock(start, end) ==
    insert(insert_parentless(new_rootless, 0, DefaultMeta),
           0, 0, BlockMeta(start, end)).g

ResolveAlphabet ==
    {Instr("Push", 4, 7), Instr("Push", 12, 256), Instr("Add", 4, 1),
     Instr("Subtract", 4, 1), Instr("Call", 8, 2), Instr("Return", 4, 0),
     Instr("Exit", 4, 0), Instr("Pop", 8, 0), Instr("BranchIf", 4, -1),
     Instr("Convert", 4, 0), Instr("Duplicate", 4, 0), Instr("Branch", 4, 0),
     Instr("Branch", 4, -8)}

InitResolve ==
    /\ GraphIdle /\ call = IdleCall
    /\ code \in Streams(ResolveAlphabet, MaxBlock)
    /\ exec_off = 0
    /\ pc = "resolve" /\ result = None
    /\ BuildIdle
    /\ part = IdlePart
    /\ \E start \in {0, 1} :
          start <= Len(code) /\ out_cfg = OneBlock(start, Len(code))
    /\ ResolveIdle

NextResolve == ResolveNext \/ ResolveStep

SpecResolve == InitResolve /\ [][NextResolve]_vars

\* try_resolve is called from the only thread and never blocks.
SpecResolveFair == SpecResolve /\ WF_vars(NextResolve)

\* try_resolve on blocks of constant pushes, binary operators and returns.
PostfixAlphabet ==
    {Instr("Push", 4, 7), Instr("Push", 12, 256), Instr("Add", 4, 1),
     Instr("Subtract", 4, 1), Instr("Return", 4, 0)}

InitPostfix ==
    /\ GraphIdle /\ call = IdleCall
    /\ code \in Streams(PostfixAlphabet, MaxPostfix)
    /\ exec_off = 0
    /\ pc = "resolve" /\ result = None
    /\ BuildIdle
    /\ part = IdlePart
    /\ out_cfg = OneBlock(0, Len(code))
    /\ ResolveIdle

SpecPostfix == InitPostfix /\ [][NextResolve]_vars

\* decompile_one.
CodeAlphabet ==
    {Instr("Push", 8, 7), Instr("Add", 4, 1), Instr("Return", 4, 0),
     Instr("Exit", 4, 0), Instr("Branch", 4, -1), Instr("BranchIf", 4, -1),
     Instr("BranchIf", 4, -2), Instr("BranchIf", 4, 1)}

Init ==
    /\ GraphIdle /\ call = IdleCall
    /\ code \in Streams(CodeAlphabet, MaxCode)
    /\ exec_off \in {0, 4}
    /\ pc = "entry" /\ result = None
    /\ BuildIdle /\ PartIdle /\ ResolveIdle

Next ==
    \/ BuildEntry \/ BuildStep
    \/ PartitionEnter \/ PartitionVisit \/ PartitionZip
    \/ PartitionBlock \/ PartitionLink \/ PartitionReturn
    \/ ResolveNext \/ ResolveStep

Spec == Init /\ [][Next]_vars

\* decompile_one on streams with backward unconditional jumps.  The builder
\* reads jump_offset in 4-byte words (line 96), try_resolve in bytes (line 528).
JumpAlphabet ==
    {Instr("Push", 12, 256), Instr("Convert", 4, 0), Instr("Return", 4, 0),
     Instr("Exit", 4, 0), Instr("Branch", 4, -4), Instr("Branch", 4, -1),
     Instr("BranchIf", 4, -1)}

InitJump ==
    /\ GraphIdle /\ call = IdleCall
    /\ code \in Streams(JumpAlphabet, MaxCode)
    /\ exec_off \in {0, 4}
    /\ pc = "entry" /\ result = None
    /\ BuildIdle /\ PartIdle /\ ResolveIdle

SpecJump == InitJump /\ [][Next]_vars

\* decompile_one is the only thread and never blocks: it keeps taking steps.
SpecJumpFair == SpecJump /\ WF_vars(Next)

(***************************************************************************)
(* Properties.                                                             *)
(***************************************************************************)

\* C1 (SpecGraph): after any sequence of insert, insert_parentless and remove
\* calls none of which aborted, b is a child of a iff a is a parent of b, and
\* every node named in a children or parents set is a member of the graph.
C1_EdgeSymmetry ==
    gstatus = "ok" =>
        \A a \in DOMAIN g.nodes :
            /\ children_of(g, a) \cup parents_of(g, a) \subseteq DOMAIN g.nodes
            /\ \A b \in DOMAIN g.nodes :
                  b \in children_of(g, a) <=> a \in parents_of(g, b)

\* The root has been removed, and an edge between two other nodes remains.
C1_Witness ==
    /\ gstatus = "ok"
    /\ \E r \in g.root : r \notin DOMAIN g.nodes
    /\ \E a \in DOMAIN g.nodes, b \in DOMAIN g.nodes :
          a # b /\ b \in children_of(g, a)

\* C2 (SpecBuildFair): create_instr_cfg_from_code terminates, also on streams
\* whose jumps form self-loops or cycles: it returns the CFG or an error.
C2_BuildTerminates == <>(pc \in {"built", "done"})

\* A CFG has been returned for a stream with a jump to itself, whose index was
\* dequeued three times.
C2_Witness ==
    /\ pc = "built"
    /\ \E i \in DOMAIN in_cfg.nodes :
          i \in children_of(in_cfg, i) /\ reached[i] = 3

\* C3 (SpecBuild): no iteration reads the instruction list at or past its end,
\* and every node of the CFG is an index below the number of instructions.
C3_InBounds ==
    /\ last.kind # "abort"
    /\ last.kind \in {"expand", "error", "skip"} => last.cand < Len(code)
    /\ \A n \in DOMAIN in_cfg.nodes : n < Len(code)

\* The loop has ended on a dequeued candidate at or past the end of a stream
\* of which it had made nodes.
C3_Witness ==
    /\ pc = "built" /\ last.kind = "break"
    /\ last.cand >= Len(code)
    /\ DOMAIN in_cfg.nodes # {}

\* C4 (SpecBuild): when the dequeued candidate is reached for the second time
\* (it is a node already), the edge parent -> candidate is recorded and no
\* successor of the candidate is enqueued again.
C4_SecondVisitNotReexpanded ==
    (last.kind \in {"expand", "skip"} /\ last.visit = 2) =>
        /\ has(in_cfg, last.cand) /\ has(in_cfg, last.parent)
        /\ last.parent \in parents_of(in_cfg, last.cand)
        /\ last.cand \in children_of(in_cfg, last.parent)
        /\ last.pushed = <<>>

\* C5 (SpecOffset): get_index_from_bytes applied to the total byte length of
\* the stream returns the number of instructions, and fails on any larger
\* offset.
C5_TotalLength ==
    (call.fn = "get_index_from_bytes" /\ call.done) =>
        /\ call.offset = code_byte_length(code) =>
              call.ret.tag = "Ok" /\ call.ret.val = Len(code)
        /\ call.offset > code_byte_length(code) => call.ret.tag = "Err"

\* The call on the total length of a stream of two or more instructions.
C5_Witness ==
    /\ call.fn = "get_index_from_bytes" /\ call.done
    /\ Len(code) >= 2
    /\ call.offset = code_byte_length(code)
    /\ call.ret.tag = "Ok" /\ call.ret.val = Len(code)

\* C6 (SpecOffset): get_index_from_byte_offset(instructions, i, 0) returns i.
C6_ZeroOffsetIsIdentity ==
    (call.fn = "get_index_from_byte_offset" /\ call.done /\ call.offset = 0) =>
        call.ret.tag = "Ok" /\ call.ret.val = call.index

\* The call with offset 0 at an index other than 0.
C6_Witness ==
    /\ call.fn = "get_index_from_byte_offset" /\ call.done
    /\ call.offset = 0 /\ call.index > 0
    /\ call.ret.tag = "Ok" /\ call.ret.val = call.index

\* C7 (SpecResolve): once a step of try_resolve has popped the operand stack
\* while it held too few operands, try_resolve has returned a stack-underflow
\* error that names the block.
C7_UnderflowIsError ==
    resolution.underflow =>
        /\ resolution.ret.tag = "Err"
        /\ resolution.ret.err = "stack underflow"
        /\ resolution.ret.block = resolution.entry

\* C8 (SpecResolve): try_resolve declines every block of at most one
\* instruction: it returns Ok(None) and no statement is produced.
C8_SingleInstructionDeclined ==
    (resolution.entry = 0 /\ RangeLen(meta_of(out_cfg, 0).instr_range) <= 1) =>
        /\ resolution.ret.tag = "Ok" /\ resolution.ret.val = <<>>
        /\ pc # "simulate" /\ sl = IdleSim /\ outs = <<>>
        /\ declined = {0}

\* try_resolve has declined a block of exactly one instruction.
C8_Witness ==
    /\ resolution.entry = 0
    /\ RangeLen(meta_of(out_cfg, 0).instr_range) = 1
    /\ resolution.ret.tag = "Ok" /\ resolution.ret.val = <<>>
    /\ pc = "done"

\* The operand-stack depth after the first k instructions of a run of pushes
\* and binary operators.
RECURSIVE Depth(_, _)
Depth(body, k) ==
    IF k = 0 THEN 0
    ELSE Depth(body, k - 1) + (IF body[k].op = "Push" THEN 1 ELSE -1)

\* More than one instruction: constant pushes and binary operators that never
\* underflow, followed by one return that finds an operand.
PostfixBlock(block) ==
    /\ Len(block) > 1
    /\ block[Len(block)].op = "Return"
    /\ \A k \in 1..(Len(block) - 1) :
          /\ block[k].op \in {"Push"} \cup BinaryInstrs
          /\ block[k].op \in BinaryInstrs => Depth(block, k - 1) >= 2
    /\ Depth(block, Len(block) - 1) >= 1

\* The expression a postfix sequence denotes, read from its end: the tree that
\* ends at position k, and the position at which it starts.
RECURSIVE TreeEnding(_, _)
TreeEnding(body, k) ==
    IF body[k].op = "Push"
    THEN [tree |-> Constant(body[k].arg), first |-> k]
    ELSE LET rhs == TreeEnding(body, k - 1)
             lhs == TreeEnding(body, rhs.first - 1)
         IN  [tree |-> Binary(BinaryOpOf(body[k]), lhs.tree, rhs.tree),
              first |-> lhs.first]

\* C9 (SpecPostfix): for a block of constant pushes and binary operators
\* followed by one return, without underflow, try_resolve yields a Block of the
\* one statement Return(Some(e)), e being the tree of the postfix sequence with
\* the second-popped operand as lhs and the first-popped as rhs.
C9_PostfixTree ==
    (PostfixBlock(code) /\ pc \in {"resolve", "done"} /\ resolution.entry = 0) =>
        /\ resolution.ret.tag = "Ok"
        /\ Len(resolution.ret.val) = 1
        /\ resolution.ret.val[1].merged_into =
              <<Return(<<TreeEnding(code, Len(code) - 1).tree>>)>>

\* [push 256, push 256, add, return] has given Return(Binary(Add, 256, 256)).
C9_Witness ==
    /\ code = <<Instr("Push", 12, 256), Instr("Push", 12, 256),
                Instr("Add", 4, 1), Instr("Return", 4, 0)>>
    /\ pc = "done"
    /\ resolution.ret.tag = "Ok"
    /\ resolution.ret.val[1].merged_into =
          <<Return(<<Binary("Add", Constant(256), Constant(256))>>)>>

\* C10 (Spec): decompile_one returns Ok only with every block resolved: no
\* block was declined by the resolver and no node is left unresolved.
C10_SuccessOnlyWhenResolved ==
    (pc = "done" /\ result.tag = "Ok") =>
        /\ declined = {}
        /\ \A n \in DOMAIN out_cfg.nodes :
              meta_of(out_cfg, n).resolve_state = "Resolved"

\* C11 (SpecJumpFair): decompile_one terminates for every finite instruction
\* stream; in particular the simulation of a block ends even when the block
\* holds an unconditional jump whose target is at or before the jump.
C11_DecompileTerminates == <>(pc = "done")

\* C12 (SpecGraph): for every reachable graph and every member n, a node with
\* an edge to itself included, remove(n) completes; afterwards n is not a
\* member, no remaining node names n in its children or parents, every edge
\* between two other nodes is as before, and no edge has been added.
C12_RemoveCompletes ==
    (glast.op = "remove" /\ has(glast.before, glast.this)) =>
        LET n == glast.this
            b == glast.before
        IN  /\ gstatus = "ok"
            /\ ~has(g, n)
            /\ DOMAIN g.nodes = DOMAIN b.nodes \ {n}
            /\ \A m \in DOMAIN g.nodes :
                  /\ children_of(g, m) = children_of(b, m) \ {n}
                  /\ parents_of(g, m) = parents_of(b, m) \ {n}

\* C13 (SpecGraph): insert(parent, node, meta) on an empty graph adds node with
\* no edges and makes it the root whatever parent is; on a non-empty graph it
\* adds the edge parent -> node on both sides and sets node's metadata to meta,
\* keeping node's existing edges; on a non-empty graph where parent is not a
\* member and differs from node it fails and leaves the graph without node or
\* any edge naming parent.
C13_InsertContract ==
    glast.op = "insert" =>
        LET b == glast.before
            p == glast.parent
            n == glast.this
        IN  IF DOMAIN b.nodes = {}
            THEN /\ gstatus = "ok"
                 /\ g.nodes = n :> [children |-> {}, parents |-> {},
                                    meta |-> glast.meta]
                 /\ g.root = {n}
            ELSE IF has(b, p) \/ p = n
            THEN /\ gstatus = "ok"
                 /\ has(g, n) /\ has(g, p)
                 /\ n \in children_of(g, p) /\ p \in parents_of(g, n)
                 /\ meta_of(g, n) = glast.meta
                 /\ has(b, n) => /\ children_of(b, n) \subseteq children_of(g, n)
                                 /\ parents_of(b, n) \subseteq parents_of(g, n)
            ELSE /\ gstatus # "ok"
                 /\ ~has(b, n) => ~has(g, n)
                 /\ \A k \in DOMAIN g.nodes :
                       p \notin children_of(g, k) \cup parents_of(g, k)

\* C14 (SpecGraph): insert_parentless(node, meta) never adds or removes an
\* edge: an absent node is added with empty children and parents sets; of a
\* present node only the metadata changes; every other node is left as it was.
C14_InsertParentlessFrame ==
    glast.op = "insert_parentless" =>
        LET b == glast.before
            n == glast.this
        IN  /\ gstatus = "ok"
            /\ DOMAIN g.nodes = DOMAIN b.nodes \cup {n}
            /\ meta_of(g, n) = glast.meta
            /\ \A k \in DOMAIN b.nodes \ {n} : g.nodes[k] = b.nodes[k]
            /\ IF has(b, n)
               THEN /\ children_of(g, n) = children_of(b, n)
                    /\ parents_of(g, n) = parents_of(b, n)
               ELSE children_of(g, n) = {} /\ parents_of(g, n) = {}

\* insert_parentless has given new metadata to a node that has edges.
C14_Witness ==
    /\ glast.op = "insert_parentless"
    /\ has(glast.before, glast.this)
    /\ meta_of(glast.before, glast.this) # glast.meta
    /\ children_of(g, glast.this) # {}
    /\ parents_of(g, glast.this) # {}

\* C15 (SpecGraph): after any sequence of insert, insert_parentless and remove
\* calls on a graph that starts empty, the root is the first node that was ever
\* inserted; once set it is never changed, not even by an insertion made after
\* removals have emptied the graph.
C15_RootIsFirstInserted ==
    gfirst # {} => g.root = gfirst

\* The byte sizes of instructions a .. b-1 (0-based) added up.
SizeSum(instructions, a, b) == code_byte_length(SubSeq(instructions, a + 1, b))

\* C16 (SpecOffset): for every stream, index i and k >= 1 with i + k at most the
\* number of instructions, get_index_from_byte_offset(instructions, i, d) with
\* d the sum of the sizes of instructions i .. i+k-1 returns i + k, the index
\* in the full stream of the instruction that starts d bytes after i.
C16_ForwardOffset ==
    (call.fn = "get_index_from_byte_offset" /\ call.done) =>
        \A k \in 1..(Len(code) - call.index) :
            call.offset = SizeSum(code, call.index, call.index + k) =>
                call.ret.tag = "Ok" /\ call.ret.val = call.index + k

\* C17 (SpecOffset): for every stream, index i and negative offset -d: if d is
\* the sum of the sizes of instructions j .. i-1 for some j <= i, the result is
\* j; if d exceeds the byte length of the instructions strictly before i, the
\* result is the error of a jump before the start, never an index.
C17_BackwardOffset ==
    (call.fn = "get_index_from_byte_offset" /\ call.done /\ call.offset < 0) =>
        /\ \A j \in 0..call.index :
              -call.offset = SizeSum(code, j, call.index) =>
                  call.ret.tag = "Ok" /\ call.ret.val = j
        /\ -call.offset > SizeSum(code, 0, call.index) =>
              call.ret.tag = "Err" /\ call.ret.err = "before start"

\* A backward offset over one instruction, resolved to an index other than 0,
\* with an instruction after the index the offset is relative to.
C17_Witness ==
    /\ call.fn = "get_index_from_byte_offset" /\ call.done /\ call.offset < 0
    /\ call.index < Len(code)
    /\ call.ret.tag = "Ok" /\ call.ret.val >= 1
    /\ call.ret.val = call.index - 1
    /\ -call.offset = SizeSum(code, call.ret.val, call.index)

\* C18 (SpecOffset): get_index_from_bytes returns k exactly when byte_offset is
\* the sum of the sizes of the first k instructions; it returns the misalignment
\* error exactly when byte_offset is positive, at most the total byte length and
\* strictly inside an instruction; it returns the out-of-range error exactly
\* when byte_offset exceeds the total byte length.
C18_BytesToIndex ==
    (call.fn = "get_index_from_bytes" /\ call.done) =>
        LET total == SizeSum(code, 0, Len(code))
            boundary(k) == call.offset = SizeSum(code, 0, k)
        IN  /\ call.ret.tag \in {"Ok", "Err"}
            /\ call.ret.tag = "Ok" => call.ret.val \in 0..Len(code)
            /\ \A k \in 0..Len(code) :
                  (call.ret.tag = "Ok" /\ call.ret.val = k) <=> boundary(k)
            /\ (call.ret.tag = "Err" /\ call.ret.err = "misaligned")
                  <=> /\ call.offset > 0 /\ call.offset <= total
                      /\ \A k \in 0..Len(code) : ~boundary(k)
            /\ (call.ret.tag = "Err" /\ call.ret.err = "out of range")
                  <=> call.offset > total

\* The call on an offset strictly inside the second instruction of a stream.
C18_Witness ==
    /\ call.fn = "get_index_from_bytes" /\ call.done
    /\ Len(code) >= 2
    /\ call.offset > SizeSum(code, 0, 1) /\ call.offset < SizeSum(code, 0, 2)
    /\ call.ret.tag = "Err" /\ call.ret.err = "misaligned"

\* C19 (SpecBuild): dequeuing a pair whose candidate is at or past the end of
\* the stream discards only that pair: the pairs still in the work queue are
\* dequeued and processed afterwards, so none is left when the CFG is returned.
C19_OutOfRangeDiscardsOnePair ==
    (pc = "built" /\ last.kind = "break" /\ last.cand >= Len(code)) =>
        i_next = <<>>

\* The successors of the instruction at index a under the classification: the
\* jump target is the instruction that starts 4 * jump_offset bytes from a.
ClassifiedSuccessors(instructions, a) ==
    LET instr == instructions[a + 1]
        target == {j \in 0..Len(instructions) :
                      SizeSum(instructions, 0, j)
                          = SizeSum(instructions, 0, a) + 4 * instr.arg}
    IN  CASE instr.op = "Branch" -> target
          [] instr.op \in {"BranchIf", "BranchUnless",
                           "PushWithContext", "PopWithContext"} ->
                target \cup {a + 1}
          [] instr.op \in {"Return", "Exit"} -> {}
          [] OTHER -> {a + 1}

\* C20 (SpecBuild): when create_instr_cfg_from_code returns a CFG, every
\* successor b, below the number of instructions, of every node a is a node
\* and a child of a, however many predecessors b has.
C20_SuccessorsAreChildren ==
    pc = "built" =>
        \A a \in DOMAIN in_cfg.nodes :
            \A b \in ClassifiedSuccessors(code, a) :
                b < Len(code) => has(in_cfg, b) /\ b \in children_of(in_cfg, a)

\* The instruction range [start, end) of the block keyed by trailer t.
RangeOf(blocks, t) == <<blocks[t][2], t + 1>>
Indices(range) == {n \in 0..Len(code) : range[1] <= n /\ n < range[2]}

\* C21 (SpecPartition): for every instruction CFG the builder produces and
\* every enumeration order of its nodes, the blocks have ranges [start, end)
\* with start < end, pairwise disjoint, each running from a leader to the next
\* trailer at or after it, and together covering every node of the CFG.
C21_BlocksPartitionNodes ==
    pc \in {"link", "resolve"} =>
        LET blocks == part.blocks
            trailers == {part.trailers[k] : k \in 1..Len(part.trailers)}
            leaders == {part.leaders[k] : k \in 1..Len(part.leaders)}
        IN  /\ \A t \in DOMAIN blocks :
                  /\ RangeOf(blocks, t)[1] < RangeOf(blocks, t)[2]
                  /\ RangeOf(blocks, t)[1] \in leaders
                  /\ \A u \in trailers : u >= RangeOf(blocks, t)[1] => u >= t
            /\ \A t \in DOMAIN blocks, u \in DOMAIN blocks :
                  t # u => Indices(RangeOf(blocks, t))
                               \cap Indices(RangeOf(blocks, u)) = {}
            /\ \A n \in DOMAIN in_cfg.nodes :
                  \E t \in DOMAIN blocks : n \in Indices(RangeOf(blocks, t))

\* The elements of a sequence, and whether it holds none twice.
Elements(seq) == {seq[k] : k \in 1..Len(seq)}
NoDuplicate(seq) == Cardinality(Elements(seq)) = Len(seq)

\* C22 (SpecPartition): the trailers are the nodes with zero children, more
\* than one child, or an unconditional jump; the leaders are 0 together with
\* t + 1 for every trailer t with t + 1 inside the instruction stream; each
\* trailer and each leader is recorded once.
C22_LeadersAndTrailers ==
    pc \in {"link", "resolve"} =>
        /\ Elements(part.trailers) =
              {n \in DOMAIN in_cfg.nodes :
                  \/ Cardinality(children_of(in_cfg, n)) # 1
                  \/ code[n + 1].op = "Branch"}
        /\ Elements(part.leaders) =
              {0} \cup {t + 1 : t \in {u \in Elements(part.trailers) :
                                          u + 1 < Len(code)}}
        /\ NoDuplicate(part.trailers)
        /\ NoDuplicate(part.leaders)

\* C23 (SpecPartition): every computed block, the entry block and the single
\* block of a function without jumps included, is a node of the block CFG, the
\* ids are 0..len-1, and each node's metadata is its block's own instruction
\* range with Unresolved, whatever the order of the insertions.
C23_BlocksAreNodes ==
    pc = "resolve" =>
        /\ DOMAIN out_cfg.nodes = 0..(Cardinality(DOMAIN part.blocks) - 1)
        /\ \A t \in DOMAIN part.blocks :
              LET i == part.blocks[t][1]
              IN  /\ has(out_cfg, i)
                  /\ meta_of(out_cfg, i)
                        = BlockMeta(RangeOf(part.blocks, t)[1],
                                    RangeOf(part.blocks, t)[2])

\* C24 (SpecPartition): in the block CFG there is an edge from block A to
\* block B if and only if some instruction inside A's range is a parent, in the
\* instruction CFG, of B's leader.
C24_BlockEdges ==
    pc = "resolve" =>
        \A t \in DOMAIN part.blocks, u \in DOMAIN part.blocks :
            LET a == part.blocks[t][1]
                b == part.blocks[u][1]
                leader == part.blocks[u][2]
            IN  (has(out_cfg, a) /\ b \in children_of(out_cfg, a))
                <=> /\ has(in_cfg, leader)
                    /\ \E n \in Indices(RangeOf(part.blocks, t)) :
                          n \in parents_of(in_cfg, leader)

\* The index in the slice of the instruction that starts 4 * jump_offset bytes
\* from the jump at index i, the unit the CFG builder uses; {} when there is
\* none inside the slice.
JumpTargets(slice, i) ==
    {j \in 0..(Len(slice) - 1) :
        SizeSum(slice, 0, j) = SizeSum(slice, 0, i) + 4 * slice[i + 1].arg}

\* C25 (SpecResolveFair): in try_resolve an unconditional jump whose target is
\* not an instruction of the block's slice makes try_resolve return an error;
\* when the target is inside the slice the simulation continues at the target,
\* computed in the offset units the CFG builder uses.
C25_BranchInsideSlice ==
    [][(/\ pc = "simulate"
        /\ has(out_cfg, ri)
        /\ LET slice == Slice(code, meta_of(out_cfg, ri).instr_range)
           IN  sl.i < Len(slice) /\ slice[sl.i + 1].op = "Branch")
       => LET slice == Slice(code, meta_of(out_cfg, ri).instr_range)
              targets == JumpTargets(slice, sl.i)
          IN  IF targets = {}
              THEN pc' = "done" /\ result'.tag = "Err"
              ELSE pc' = "simulate" /\ sl'.i \in targets]_vars

\* instr_cfg_to_block_cfg with every collection walked in ascending order.
MinOf(S) == CHOOSE x \in S : \A y \in S : x <= y

RECURSIVE VisitAscending(_, _, _)
VisitAscending(cfg, instructions, p) ==
    IF p.todo = {}
    THEN p
    ELSE VisitAscending(cfg, instructions,
                        VisitNode(cfg, instructions, p, MinOf(p.todo)))

RECURSIVE LinkParentsAscending(_, _, _, _)
LinkParentsAscending(cfg, blocks, end, ps) ==
    IF ps = {}
    THEN [g |-> cfg, panic |-> FALSE]
    ELSE LET r == LinkParent(cfg, blocks, end, MinOf(ps))
         IN  IF r.panic
             THEN r
             ELSE LinkParentsAscending(r.g, blocks, end, ps \ {MinOf(ps)})

RECURSIVE LinkBlocksAscending(_, _, _, _)
LinkBlocksAscending(in, cfg, blocks, todo) ==
    IF todo = {}
    THEN [g |-> cfg, panic |-> FALSE]
    ELSE LET end == MinOf(todo)
             start == blocks[end][2]
         IN  IF ~has(in, start)
             THEN [g |-> cfg, panic |-> TRUE]
             ELSE LET r == LinkParentsAscending(cfg, blocks, end,
                                                parents_of(in, start))
                  IN  IF r.panic
                      THEN r
                      ELSE LinkBlocksAscending(in, r.g, blocks, todo \ {end})

AscendingBlockCfg(in, instructions) ==
    LET p == VisitAscending(in, instructions,
                 [IdlePart EXCEPT !.leaders = <<0>>, !.todo = DOMAIN in.nodes])
        blocks == Zip(p.trailers, p.leaders)
    IN  LinkBlocksAscending(in, new_rootless, blocks, DOMAIN blocks)

\* C26 (SpecPartition): instr_cfg_to_block_cfg is deterministic with respect to
\* enumeration order: whatever the order in which the node map, the block map
\* and the parents sets are walked, the block CFG returned for one instruction
\* CFG is the same (ids, ranges, edges, root), here the one of ascending order.
C26_OrderIndependent ==
    pc = "resolve" =>
        LET r == AscendingBlockCfg(in_cfg, code)
        IN  ~r.panic /\ out_cfg = r.g

\* C27 (SpecPartition): instr_cfg_to_block_cfg completes without an
\* uncontrolled abort on every CFG create_instr_cfg_from_code returns, also for
\* an entry index other than 0 and for streams with unreachable instructions:
\* no node or block it looks up is missing.
C27_PartitionCompletes ==
    part # IdlePart => result.tag # "panic"

====
